---- MODULE Spec2Model ----
(***************************************************************************)
(* A model of report.py: the retrying request executor make_api_request,   *)
(* the paginated search walk fetch_user_prs, the pooled detail and file    *)
(* fetches of count_changes_and_lines, the sequential review checks and    *)
(* the row assembly of generate_report, and the per-user loop of           *)
(* generate_reports_for_users.                                             *)
(*                                                                         *)
(* Conventions.  An optional value (Python None or a value) is a sequence  *)
(* of length at most one: << >> is None, <<x>> is x.  A thread is the main *)
(* thread (0) or the pool task at position i (1..n) of the list handed to  *)
(* executor.map.  A step of a thread runs from one blocking point (a GET   *)
(* in flight, a sleep) to the next; the threads share no mutable data, so  *)
(* the local computation between two blocking points is one step.          *)
(***************************************************************************)
EXTENDS Integers, Sequences, FiniteSets, TLC

(* ---- policy constants of report.py ---- *)
DEFAULT_WAIT_TIME == 2
EXTENDED_WAIT_TIME == 60
MAX_RETRIES == 5
max_workers == 10
DEFAULT_USERNAMES == <<"user1", "user2">>

(* ---- bounds of the exploration ---- *)
\* search hits one user may get from a server that also fails
MaxHits == 2
\* non-200 responses the server gives while one user is processed
MaxFailures == 5
\* requests.get calls that raise (connection error) during one run
MaxNetFaults == 1
\* distinct continuation cursors the server hands out
MaxCursor == 1
\* search hits of the pool scenario (more hits than workers)
PoolHits == 11
\* search hits of the scenarios that follow one pull request through varied
\* reviews, varied file lists, or timed waits
ScenarioHits == 1
\* search hits of the scenario that compares the merge times of pull requests
PairHits == 2

VARIABLES
    env,        \* the scenario: [hitCap, uniform, failures, usernames, timed,
                \* vary]; never changes
    budget,     \* non-200 responses the server may still give for this user
    netBudget,  \* connection errors that may still happen
    mpc,        \* position of the main thread
    user,       \* index into the username list (generate_reports_for_users)
    url,        \* fetch_user_prs: the url to query next (optional)
    prs,        \* fetch_user_prs: accumulated search hits
    call,       \* per thread: its make_api_request activation
    nextTask,   \* pool: position of the first task no worker has taken yet
    nTasks,     \* pool: number of tasks submitted by the current map
    full,       \* full_pr_details: the filtered detail list
    changes,    \* changes_and_lines
    merge_times, \* generate_report: merge_times
    approvals,  \* merged_without_approvals, built front to back
    report,     \* generate_report's return value (optional list of rows)
    written,    \* the files written so far: set of [name, nrows]
    served,     \* history: <<url, body>> of the 200 responses to this user's
                \* pulls, files and reviews requests
    got,        \* history: the items of this user's 200 search responses, in order
    expected,   \* history: the url the search walk has to request next
    lastPage    \* history: what ended or continued the search walk last

vars == <<env, budget, netBudget, mpc, user, url, prs, call, nextTask, nTasks,
          full, changes, merge_times, approvals, report, written, served,
          got, expected, lastPage>>

None == << >>
Some(x) == <<x>>

Min(a, b) == IF a < b THEN a ELSE b

(***************************************************************************)
(* URLs.  The search url carries the author; a cursor is an opaque page    *)
(* url the server hands out in a Link header (cursor 0 is the built query  *)
(* url itself).                                                            *)
(***************************************************************************)
Url(kind, who, id) == [kind |-> kind, user |-> who, id |-> id]
NoUrl == Url("none", "", 0)
\* base_url of fetch_user_prs
BaseUrl(username) == Url("search", username, 0)
\* pr['pull_request']['url'] of a search hit
PullUrl(hit) == Url("pulls", hit.user, hit.html_url)
\* pr['_links']['self']['href'] + '/files'
FilesUrl(pr) == Url("files", pr.links_self.user, pr.links_self.id)
\* pr['_links']['self']['href'] + '/reviews'
ReviewsUrl(pr) == Url("reviews", pr.links_self.user, pr.links_self.id)

(***************************************************************************)
(* File names are sequences of characters, so that endswith is computed.   *)
(***************************************************************************)
EndsWith(s, suffix) ==
    /\ Len(suffix) <= Len(s)
    /\ SubSeq(s, Len(s) - Len(suffix) + 1, Len(s)) = suffix

DotLock == <<".", "l", "o", "c", "k">>
DotJson == <<".", "j", "s", "o", "n">>
DotMd == <<".", "m", "d">>
\* (variant: markdown files are not excluded)
AutogeneratedNoMd(f) ==
    \/ EndsWith(f.filename, DotLock)
    \/ EndsWith(f.filename, DotJson)

\* f['filename'].endswith(('.lock', '.json', '.md'))
Autogenerated(f) ==
    \/ EndsWith(f.filename, DotLock)
    \/ EndsWith(f.filename, DotJson)
    \/ EndsWith(f.filename, DotMd)

RECURSIVE SumChanges(_)
SumChanges(fs) ==
    IF fs = << >> THEN 0 ELSE Head(fs).changes + SumChanges(Tail(fs))

NonAutogenerated(f) == ~Autogenerated(f)

\* the body of the zip loop of count_changes_and_lines for one pr
ChangesAndLines(pr, files) ==
    IF files # << >>
    THEN LET non_autogenerated_files == SelectSeq(files, NonAutogenerated)
         IN  <<Len(non_autogenerated_files), SumChanges(non_autogenerated_files)>>
    ELSE <<0, 0>>

(***************************************************************************)
(* Review states and str.lower on them.                                    *)
(***************************************************************************)
\* (variant: the state is compared as it is)
LowerIdentity(s) == s

\* str.lower on the review states the server sends
Lower(s) ==
    CASE s = "APPROVED" -> "approved"
      [] s = "Approved" -> "approved"
      [] s = "COMMENTED" -> "commented"
      [] s = "CHANGES_REQUESTED" -> "changes_requested"
      [] s = "DISMISSED" -> "dismissed"
      [] OTHER -> s

RECURSIVE AnyApproved(_)
AnyApproved(reviews) ==
    IF reviews = << >> THEN FALSE
    ELSE Lower(Head(reviews).state) = "approved" \/ AnyApproved(Tail(reviews))

\* (variant: unavailable reviews count as approved)
MergedWithoutApprovalFailOpen(result) ==
    IF result # None /\ result[1].status_code = 200
    THEN IF AnyApproved(result[1].body.json) THEN 0 ELSE 1
    ELSE 0

\* check_merged_without_approval, given what make_api_request returned
MergedWithoutApproval(result) ==
    IF result # None /\ result[1].status_code = 200
    THEN IF AnyApproved(result[1].body.json) THEN 0 ELSE 1
    ELSE 1

(***************************************************************************)
(* Timestamps "%Y-%m-%dT%H:%M:%SZ" are records [day, hh, mm, ss]; strptime *)
(* turns one into an instant, here seconds since day 0.                    *)
(***************************************************************************)
Stamp(day, hh, mm, ss) == [day |-> day, hh |-> hh, mm |-> mm, ss |-> ss]
Strptime(ts) == ts.day * 86400 + ts.hh * 3600 + ts.mm * 60 + ts.ss

\* (variant: rounding to the nearest hour)
RoundDiv(a, b) == (2 * a + b) \div (2 * b)

\* math.ceil(a / b)
CeilDiv(a, b) == IF a % b = 0 THEN a \div b ELSE (a \div b) + 1

\* calculate_merge_time
calculate_merge_time(pr) ==
    CeilDiv(Strptime(pr.merged_at[1]) - Strptime(pr.created_at), 3600)

\* strptime(...).strftime("%Y-%m-%d")
CreatedDate(pr) == pr.created_at.day

(***************************************************************************)
(* The remote API.  What a 200 response to a url may carry.  In a uniform  *)
(* scenario the server answers every request of a kind alike.              *)
(***************************************************************************)
Cursors == 0..MaxCursor

LinkEntry(target, rel) == [target |-> target, rel |-> rel]

\* the Link headers the search endpoint may send: none, one without a next
\* entry, and for every cursor one with the next entry first and one with
\* the next entry last
LinkHeaders(username) ==
    {None, Some(<<LinkEntry(BaseUrl(username), "prev")>>)}
    \cup { Some(<<LinkEntry(Url("search", username, c), "next"),
                  LinkEntry(BaseUrl(username), "last")>>) : c \in Cursors }
    \cup { Some(<<LinkEntry(BaseUrl(username), "prev"),
                  LinkEntry(Url("search", username, c), "next")>>) : c \in Cursors }

Hit(username, id) == [html_url |-> id, user |-> username]

\* the hits of one page: the server numbers a user's hits in the order it
\* returns them
Items(username, first, n) == [i \in 1..n |-> Hit(username, first + i - 1)]

SearchBodies(username, nHave, e) ==
    { [json |-> Items(username, nHave + 1, n), link |-> l] :
        n \in (IF e.uniform THEN {e.hitCap - nHave} ELSE 0..(e.hitCap - nHave)),
        l \in LinkHeaders(username) }

Created == Stamp(0, 0, 0, 0)

\* the timestamps of the scenario that varies them: two creation times, and
\* merge times one minute, exactly one hour, one hour and a second, ... later,
\* also across midnight
VariedCreated == { Created, Stamp(0, 23, 30, 0) }

VariedMerged ==
    { Stamp(0, 0, 1, 0), Stamp(0, 1, 0, 0), Stamp(0, 1, 0, 1), Stamp(0, 1, 30, 0),
      Stamp(1, 0, 0, 0), Stamp(1, 0, 29, 59), Stamp(1, 0, 30, 0), Stamp(1, 0, 30, 1) }

CreatedAts(e) == IF e.vary = "times" THEN VariedCreated ELSE {Created}

MergedAts(e) ==
    IF e.vary = "times" THEN { Some(m) : m \in VariedMerged }
    ELSE IF e.uniform THEN {Some(Stamp(0, 1, 30, 0))}
    ELSE {None, Some(Stamp(0, 1, 30, 0))}

\* a pull request is not merged before it is created
PullBodies(u, e) ==
    { b \in { [html_url |-> u.id, created_at |-> c, merged_at |-> m,
               links_self |-> [user |-> u.user, id |-> u.id]] :
                  c \in CreatedAts(e), m \in MergedAts(e) } :
        b.merged_at # None => Strptime(b.created_at) <= Strptime(b.merged_at[1]) }

File(name, n) == [filename |-> name, changes |-> n]
FilePy == <<"x", ".", "p", "y">>
FileLock == <<"x", ".", "l", "o", "c", "k">>
FileJson == <<"x", ".", "j", "s", "o", "n">>
FileMd == <<"x", ".", "m", "d">>
\* names that hold md without being markdown files
FileNoDot == <<"x", "m", "d">>
FileMdPy == <<"x", ".", "m", "d", ".", "p", "y">>

FileNames == {FilePy, FileLock, FileJson, FileMd, FileNoDot, FileMdPy}

\* the file lists of the scenario that varies them: up to two files of any
\* of the names, the first with 3 changes and the second with 5
VariedFileLists ==
    { << >> } \cup { <<File(a, 3)>> : a \in FileNames }
    \cup { <<File(a, 3), File(b, 5)>> : a \in FileNames, b \in FileNames }

FileLists(e) ==
    IF e.vary = "files" THEN VariedFileLists
    ELSE IF e.uniform THEN { <<File(FilePy, 3)>> }
    ELSE { << >>,
           <<File(FilePy, 3), File(FileLock, 5), File(FileJson, 1)>>,
           <<File(FileMd, 2), File(FilePy, 4), File(FilePy, 1)>> }

Review(state) == [state |-> state]

ReviewStates == {"APPROVED", "Approved", "approved", "COMMENTED", "DISMISSED"}

\* the review lists of the scenario that varies them: up to two reviews of
\* any of the states
VariedReviewLists ==
    { << >> } \cup { <<Review(a)>> : a \in ReviewStates }
    \cup { <<Review(a), Review(b)>> : a \in ReviewStates, b \in ReviewStates }

ReviewLists(e) ==
    IF e.vary = "reviews" THEN VariedReviewLists
    ELSE IF e.uniform THEN { <<Review("APPROVED")>> }
    ELSE { << >>,
           <<Review("COMMENTED"), Review("APPROVED")>>,
           <<Review("CHANGES_REQUESTED")>> }

Bodies(u, nHave, e) ==
    CASE u.kind = "search" -> SearchBodies(u.user, nHave, e)
      [] u.kind = "pulls" -> { [json |-> b, link |-> None] : b \in PullBodies(u, e) }
      [] u.kind = "files" -> { [json |-> b, link |-> None] : b \in FileLists(e) }
      [] u.kind = "reviews" -> { [json |-> b, link |-> None] : b \in ReviewLists(e) }
      [] OTHER -> {}

\* a response: the status, whether the text holds "secondary rate limit",
\* the JSON body and the Link header
Response(status, rl, body) ==
    [status_code |-> status, rate_limited |-> rl, body |-> body]

OkResponses(u, nHave, e) == { Response(200, FALSE, b) : b \in Bodies(u, nHave, e) }

ErrorResponses ==
    { Response(st, rl, [json |-> << >>, link |-> None]) :
        st \in {403, 500}, rl \in BOOLEAN }

(***************************************************************************)
(* make_api_request.  An activation is [pc, url, retries, result] plus the *)
(* history fields attempts (GETs issued), slept (seconds slept so far),    *)
(* lastStep (whether its last blocking step was a GET or a sleep) and      *)
(* seen200 (how many of its GETs were answered with status 200).           *)
(*   pc: "idle" none, "wait" a GET is in flight, "sleep" in time.sleep,    *)
(*       "ret" returned result, "raised" requests.get raised               *)
(***************************************************************************)
IdleCall ==
    [pc |-> "idle", url |-> NoUrl, retries |-> 0, result |-> None,
     attempts |-> 0, slept |-> 0, lastStep |-> "none", seen200 |-> 0]

\* (variant: the loop admits one attempt too many)
LoopCondOneMore(retries) == retries <= MAX_RETRIES

\* the loop condition
LoopCond(retries) == retries < MAX_RETRIES

\* the while head: another GET, or fall out of the loop and return None
LoopHead(rec) ==
    IF LoopCond(rec.retries)
    THEN [rec EXCEPT !.pc = "wait", !.attempts = @ + 1, !.lastStep = "get"]
    ELSE [rec EXCEPT !.pc = "ret", !.result = None]

\* entry: retries = 0, then the loop
Enter(u) == LoopHead([IdleCall EXCEPT !.url = u])

\* (variant: the wait grows with the number of retries already made)
SleepingBackoff(rec, seconds) ==
    [rec EXCEPT !.pc = "sleep", !.lastStep = "sleep",
                !.slept = IF env.timed THEN @ + seconds * (rec.retries + 1) ELSE @]

\* time.sleep(seconds); the seconds are added up in a timed scenario only
Sleeping(rec, seconds) ==
    [rec EXCEPT !.pc = "sleep", !.lastStep = "sleep",
                !.slept = IF env.timed THEN @ + seconds ELSE @]

\* may the else branch retry
MayRetry(retries) == retries < MAX_RETRIES - 1

\* (variant: a 200 answer is not returned at once but waited on and retried)
OnResponseRetriesOk(rec, resp) ==
    IF resp.status_code = 403 /\ resp.rate_limited
    THEN Sleeping(rec, EXTENDED_WAIT_TIME)
    ELSE IF MayRetry(rec.retries)
    THEN Sleeping(rec, DEFAULT_WAIT_TIME)
    ELSE [rec EXCEPT !.pc = "ret",
                     !.result = IF resp.status_code = 200 THEN Some(resp) ELSE None]

\* the branches on the response of one GET
OnResponse(rec, resp) ==
    IF resp.status_code = 200
    THEN [rec EXCEPT !.pc = "ret", !.result = Some(resp)]
    ELSE IF resp.status_code = 403 /\ resp.rate_limited
    THEN Sleeping(rec, EXTENDED_WAIT_TIME)
    ELSE IF MayRetry(rec.retries)
    THEN Sleeping(rec, DEFAULT_WAIT_TIME)
    ELSE [rec EXCEPT !.pc = "ret", !.result = None]

\* after time.sleep: retries += 1, back to the loop head
AfterSleep(rec) == LoopHead([rec EXCEPT !.retries = @ + 1])

Threads == 0..env.hitCap
Tasks == 1..env.hitCap

InFlight == { c \in Threads : call[c].pc = "wait" }
Running == { c \in Tasks : call[c].pc \in {"wait", "sleep"} }

(***************************************************************************)
(* fetch_user_prs: the Link header parse.  The header is split into its    *)
(* entries; every entry holding rel="next" overwrites url, so the last one *)
(* stands.                                                                 *)
(***************************************************************************)
RECURSIVE ScanLinks(_, _)
ScanLinks(links, u) ==
    IF links = << >> THEN u
    ELSE ScanLinks(Tail(links),
                   IF Head(links).rel = "next" THEN Some(Head(links).target) ELSE u)

\* (variant: the first entry of the header is followed, whatever its rel)
ParseFirstEntry(resp) ==
    IF resp.body.link # None THEN Some(resp.body.link[1][1].target) ELSE None

ParseNext(resp) ==
    IF resp.body.link # None THEN ScanLinks(resp.body.link[1], None) ELSE None

\* prs.extend(data.get('items', []))
Extend(list, items) == list \o items

\* history: the rel="next" target of a Link header, if it has one
NextLinkOf(link) ==
    IF link # None /\ \E i \in 1..Len(link[1]) : link[1][i].rel = "next"
    THEN Some(link[1][CHOOSE i \in 1..Len(link[1]) : link[1][i].rel = "next"].target)
    ELSE None

(***************************************************************************)
(* Initial states.                                                         *)
(***************************************************************************)
InitWith(e, nb) ==
    /\ env = e
    /\ budget = e.failures
    /\ netBudget = nb
    /\ mpc = "next_user"
    /\ user = 1
    /\ url = None
    /\ prs = << >>
    /\ call = [c \in 0..e.hitCap |-> IdleCall]
    /\ nextTask = 1
    /\ nTasks = 0
    /\ full = << >>
    /\ changes = << >>
    /\ merge_times = << >>
    /\ approvals = << >>
    /\ report = None
    /\ written = {}
    /\ served = {}
    /\ got = << >>
    /\ expected = None
    /\ lastPage = "start"

\* the default username list, a server that fails and varies its answers
Init ==
    InitWith([hitCap |-> MaxHits, uniform |-> FALSE, failures |-> MaxFailures,
              usernames |-> DEFAULT_USERNAMES, timed |-> FALSE, vary |-> "none"],
             MaxNetFaults)

\* the pool scenario: one username entered at the prompt, more hits than
\* workers, a server that answers every request with 200
InitPool ==
    InitWith([hitCap |-> PoolHits, uniform |-> TRUE, failures |-> 0,
              usernames |-> <<"user1">>, timed |-> FALSE, vary |-> "none"], 0)

\* one username and one hit, a server that fails; the sleeps are added up
InitTimed ==
    InitWith([hitCap |-> ScenarioHits, uniform |-> TRUE, failures |-> MaxFailures,
              usernames |-> <<"user1">>, timed |-> TRUE, vary |-> "none"],
             MaxNetFaults)

\* one username and one hit, a server that fails and varies the reviews
InitReviews ==
    InitWith([hitCap |-> ScenarioHits, uniform |-> TRUE, failures |-> MaxFailures,
              usernames |-> <<"user1">>, timed |-> FALSE, vary |-> "reviews"],
             MaxNetFaults)

\* one username and one hit, a server that answers every request with 200
\* and varies the file lists
InitFiles ==
    InitWith([hitCap |-> ScenarioHits, uniform |-> TRUE, failures |-> 0,
              usernames |-> <<"user1">>, timed |-> FALSE, vary |-> "files"], 0)

\* one username and two hits, a server that answers every request with 200
\* and varies the timestamps
InitTimes ==
    InitWith([hitCap |-> PairHits, uniform |-> TRUE, failures |-> 0,
              usernames |-> <<"user1">>, timed |-> FALSE, vary |-> "times"], 0)

(***************************************************************************)
(* Steps of make_api_request, for any thread.                              *)
(***************************************************************************)
\* history kept when thread c's activation becomes rec after a response resp
\* (resp = None: no response in this step)
Note(c, rec, resp) ==
    /\ served' = IF resp # None /\ resp[1].status_code = 200 /\ rec.url.kind # "search"
                 THEN served \cup {<<rec.url, resp[1].body.json>>}
                 ELSE served
    /\ got' = IF resp # None /\ resp[1].status_code = 200 /\ rec.url.kind = "search"
              THEN got \o resp[1].body.json
              ELSE got
    /\ expected' = IF resp # None /\ resp[1].status_code = 200 /\ rec.url.kind = "search"
                   THEN NextLinkOf(resp[1].body.link)
                   ELSE expected
    /\ lastPage' = IF rec.url.kind # "search" \/ rec.pc # "ret" THEN lastPage
                   ELSE IF rec.result = None THEN "fail"
                   ELSE IF NextLinkOf(rec.result[1].body.link) = None THEN "last"
                   ELSE "next"

\* history: count the 200 answers an activation has received
Seen(rec, resp) ==
    [rec EXCEPT !.seen200 = IF resp.status_code = 200 THEN @ + 1 ELSE @]

\* the response to thread c's GET arrives
Receive(c) ==
    /\ call[c].pc = "wait"
    /\ \E resp \in OkResponses(call[c].url, Len(prs), env)
                   \cup (IF budget > 0 THEN ErrorResponses ELSE {}) :
          /\ call' = [call EXCEPT ![c] = Seen(OnResponse(@, resp), resp)]
          /\ budget' = IF resp.status_code = 200 THEN budget ELSE budget - 1
          /\ Note(c, call'[c], Some(resp))
    /\ UNCHANGED <<env, netBudget, mpc, user, url, prs, nextTask, nTasks, full,
                   changes, merge_times, approvals, report, written>>

\* thread c's sleep ends
Wake(c) ==
    /\ call[c].pc = "sleep"
    /\ call' = [call EXCEPT ![c] = AfterSleep(@)]
    /\ Note(c, call'[c], None)
    /\ UNCHANGED <<env, budget, netBudget, mpc, user, url, prs, nextTask, nTasks,
                   full, changes, merge_times, approvals, report, written>>

\* requests.get raises in thread c (no connection, reset, ...): nothing in
\* make_api_request or its callers catches it
Raise(c) ==
    /\ call[c].pc = "wait"
    /\ netBudget > 0
    /\ netBudget' = netBudget - 1
    /\ call' = [call EXCEPT ![c].pc = "raised"]
    /\ UNCHANGED <<env, budget, mpc, user, url, prs, nextTask, nTasks, full,
                   changes, merge_times, approvals, report, written, served,
                   got, expected, lastPage>>

(***************************************************************************)
(* The functions run by the pool, given what make_api_request returned.    *)
(***************************************************************************)
\* (variant: every fetched detail is kept, merged or not)
IsMergedAlways(pr_details) == TRUE

\* if pr_details.get('merged_at')
IsMerged(pr_details) == pr_details.merged_at # None

\* fetch_full_pr_details
fetch_full_pr_details(result) ==
    IF result # None /\ result[1].status_code = 200
    THEN IF IsMerged(result[1].body.json) THEN Some(result[1].body.json) ELSE None
    ELSE None

\* fetch_files_for_pr
fetch_files_for_pr(result) ==
    IF result # None /\ result[1].status_code = 200
    THEN result[1].body.json
    ELSE << >>

\* (variant: the results are taken in another order than the inputs)
ResultAtReversed(k) == call[nTasks + 1 - k].result

\* executor.map yields the results in the order of its input: the k-th
\* result is that of the k-th task
ResultAt(k) == call[k].result

\* (variant: the filter stops at the first None)
RECURSIVE DropNoneUntilFirst(_)
DropNoneUntilFirst(list) ==
    IF list = << >> \/ Head(list) = None THEN << >>
    ELSE <<Head(list)[1]>> \o DropNoneUntilFirst(Tail(list))

\* [pr for pr in full_pr_details if pr is not None]
RECURSIVE DropNone(_)
DropNone(list) ==
    IF list = << >> THEN << >>
    ELSE (IF Head(list) # None THEN <<Head(list)[1]>> ELSE << >>) \o DropNone(Tail(list))

\* (variant: a pull request whose files are missing gets no entry)
ZipLoopSkipMissing(prList, fileResults) ==
    LET n == Min(Len(prList), Len(fileResults))
        pairs == [k \in 1..n |-> <<prList[k], fileResults[k]>>]
        kept == SelectSeq(pairs, LAMBDA x : x[2] # << >>)
    IN  [k \in 1..Len(kept) |-> ChangesAndLines(kept[k][1], kept[k][2])]

\* the zip loop of count_changes_and_lines: one entry per pair of a detail
\* and its file result
ZipLoop(prList, fileResults) ==
    [k \in 1..Min(Len(prList), Len(fileResults)) |->
        ChangesAndLines(prList[k], fileResults[k])]

\* zip stops at the shortest of its lists
ZipLen(a, b, c, d) == Min(Min(Len(a), Len(b)), Min(Len(c), Len(d)))

\* the rows of generate_report
Rows(prList, changeList, timeList, approvalList) ==
    [k \in 1..ZipLen(prList, changeList, timeList, approvalList) |->
        [pr_url |-> prList[k].html_url,
         created_date |-> CreatedDate(prList[k]),
         merge_time |-> timeList[k],
         no_approval |-> approvalList[k],
         changes |-> changeList[k][1],
         lines |-> changeList[k][2]]]

usernames == env.usernames

ResetTasks == [c \in DOMAIN call |-> IdleCall]

(***************************************************************************)
(* The main thread.                                                        *)
(***************************************************************************)
\* generate_reports_for_users: the for loop takes the next username and
\* generate_report calls fetch_user_prs, or the loop ends
NextUser ==
    /\ mpc = "next_user"
    /\ IF user <= Len(usernames)
       THEN /\ mpc' = "fetch_loop"
            /\ url' = Some(BaseUrl(usernames[user]))
            /\ prs' = << >>
            /\ expected' = Some(BaseUrl(usernames[user]))
       ELSE /\ mpc' = "exit"
            /\ UNCHANGED <<url, prs, expected>>
    /\ full' = << >>
    /\ changes' = << >>
    /\ merge_times' = << >>
    /\ approvals' = << >>
    /\ report' = None
    /\ served' = {}
    /\ got' = << >>
    /\ lastPage' = "start"
    /\ budget' = env.failures
    /\ UNCHANGED <<env, netBudget, user, call, nextTask, nTasks, written>>

\* fetch_user_prs: the head of "while url"
FetchLoop ==
    /\ mpc = "fetch_loop"
    /\ IF url # None
       THEN /\ call' = [call EXCEPT ![0] = Enter(url[1])]
            /\ mpc' = "fetch_wait"
       ELSE /\ mpc' = "got_prs"
            /\ UNCHANGED call
    /\ UNCHANGED <<env, budget, netBudget, user, url, prs, nextTask, nTasks, full,
                   changes, merge_times, approvals, report, written, served,
                   got, expected, lastPage>>

\* fetch_user_prs: make_api_request returned
PageDone ==
    /\ mpc = "fetch_wait"
    /\ call[0].pc = "ret"
    /\ LET response == call[0].result
       IN  IF response # None /\ response[1].status_code = 200
           THEN /\ prs' = Extend(prs, response[1].body.json)
                /\ url' = ParseNext(response[1])
                /\ mpc' = "fetch_loop"
           ELSE /\ mpc' = "got_prs"
                /\ UNCHANGED <<prs, url>>
    /\ call' = [call EXCEPT ![0] = IdleCall]
    /\ UNCHANGED <<env, budget, netBudget, user, nextTask, nTasks, full, changes,
                   merge_times, approvals, report, written, served, got,
                   expected, lastPage>>

\* fetch_user_prs has returned (its locals and the walk's history are
\* dropped); generate_report: no hits, or count_changes_and_lines submits
\* the detail fetches
GotPrs ==
    /\ mpc = "got_prs"
    /\ IF prs = << >>
       THEN /\ mpc' = "save"
            /\ UNCHANGED <<nTasks, nextTask>>
       ELSE /\ mpc' = "pool_detail"
            /\ nTasks' = Len(prs)
            /\ nextTask' = 1
    /\ report' = None
    /\ url' = None
    /\ got' = << >>
    /\ expected' = None
    /\ lastPage' = "start"
    /\ UNCHANGED <<env, budget, netBudget, user, prs, call, full, changes,
                   merge_times, approvals, written, served>>

\* (variant: a pool that starts a thread per task)
WorkerFreeUnbounded == TRUE

\* ThreadPoolExecutor(max_workers=10): a task is taken only by a worker that
\* runs no other task
WorkerFree == Cardinality(Running) < max_workers

\* a pool worker takes the next queued task and issues its first GET
StartTask(i) ==
    /\ mpc \in {"pool_detail", "pool_files"}
    /\ i = nextTask
    /\ i <= nTasks
    /\ WorkerFree
    /\ call' = [call EXCEPT ![i] =
                   Enter(IF mpc = "pool_detail" THEN PullUrl(prs[i])
                         ELSE FilesUrl(full[i]))]
    /\ nextTask' = i + 1
    /\ UNCHANGED <<env, budget, netBudget, mpc, user, url, prs, nTasks, full,
                   changes, merge_times, approvals, report, written, served,
                   got, expected, lastPage>>

AllReturned ==
    /\ nextTask > nTasks
    /\ \A i \in 1..nTasks : call[i].pc = "ret"

\* list(executor.map(fetch_full_pr_details, prs)) is complete: filter, and
\* submit the file fetches
JoinDetails ==
    /\ mpc = "pool_detail"
    /\ AllReturned
    /\ LET all == [k \in 1..nTasks |-> fetch_full_pr_details(ResultAt(k))]
       IN  /\ full' = DropNone(all)
           /\ nTasks' = Len(full')
    /\ nextTask' = 1
    /\ call' = ResetTasks
    /\ mpc' = "pool_files"
    /\ UNCHANGED <<env, budget, netBudget, user, url, prs, changes, merge_times,
                   approvals, report, written, served, got, expected, lastPage>>

\* the zip loop has consumed every file result; the pool shuts down;
\* generate_report computes merge_times
JoinFiles ==
    /\ mpc = "pool_files"
    /\ AllReturned
    /\ changes' = ZipLoop(full, [k \in 1..nTasks |-> fetch_files_for_pr(ResultAt(k))])
    /\ merge_times' = [k \in 1..Len(full) |-> calculate_merge_time(full[k])]
    /\ approvals' = << >>
    /\ call' = ResetTasks
    /\ nTasks' = 0
    /\ nextTask' = 1
    /\ mpc' = "reviews"
    /\ UNCHANGED <<env, budget, netBudget, user, url, prs, full, report, written,
                   served, got, expected, lastPage>>

\* the result iterator reaches a task whose function raised: the exception
\* is raised in the main thread and the iterator cancels the queued tasks
PoolRaise ==
    /\ mpc \in {"pool_detail", "pool_files"}
    /\ \E i \in 1..nTasks :
          /\ call[i].pc = "raised"
          /\ \A j \in 1..(i - 1) : call[j].pc = "ret"
    /\ nextTask' = nTasks + 1
    /\ mpc' = "pool_abort"
    /\ UNCHANGED <<env, budget, netBudget, user, url, prs, call, nTasks, full,
                   changes, merge_times, approvals, report, written, served,
                   got, expected, lastPage>>

\* leaving the with block waits for the running tasks; then the exception
\* leaves generate_report and generate_reports_for_users
PoolAbort ==
    /\ mpc = "pool_abort"
    /\ Running = {}
    /\ mpc' = "crashed"
    /\ UNCHANGED <<env, budget, netBudget, user, url, prs, call, nextTask, nTasks,
                   full, changes, merge_times, approvals, report, written,
                   served, got, expected, lastPage>>

\* the list comprehension over check_merged_without_approval: the next
\* review request, or the rows are built and generate_report returns
Reviews ==
    /\ mpc = "reviews"
    /\ IF Len(approvals) < Len(full)
       THEN /\ call' = [call EXCEPT ![0] = Enter(ReviewsUrl(full[Len(approvals) + 1]))]
            /\ mpc' = "review_wait"
            /\ UNCHANGED report
       ELSE /\ report' = Some(Rows(full, changes, merge_times, approvals))
            /\ mpc' = "save"
            /\ UNCHANGED call
    /\ UNCHANGED <<env, budget, netBudget, user, url, prs, nextTask, nTasks, full,
                   changes, merge_times, approvals, written, served, got,
                   expected, lastPage>>

\* check_merged_without_approval: make_api_request returned
ReviewDone ==
    /\ mpc = "review_wait"
    /\ call[0].pc = "ret"
    /\ approvals' = Append(approvals, MergedWithoutApproval(call[0].result))
    /\ call' = [call EXCEPT ![0] = IdleCall]
    /\ mpc' = "reviews"
    /\ UNCHANGED <<env, budget, netBudget, user, url, prs, nextTask, nTasks, full,
                   changes, merge_times, report, written, served, got, expected,
                   lastPage>>

\* requests.get raised in the main thread: the exception leaves every frame
MainRaised ==
    /\ mpc \in {"fetch_wait", "review_wait"}
    /\ call[0].pc = "raised"
    /\ mpc' = "crashed"
    /\ UNCHANGED <<env, budget, netBudget, user, url, prs, call, nextTask, nTasks,
                   full, changes, merge_times, approvals, report, written,
                   served, got, expected, lastPage>>

\* to_csv writes the file <username>_pr_report.csv; the model keeps its name
\* and the number of its data rows
WriteFile(files, username, rows) ==
    { w \in files : w.name # username } \cup {[name |-> username, nrows |-> Len(rows)]}

\* generate_reports_for_users: the report is saved unless it is None
Save ==
    /\ mpc = "save"
    /\ written' = IF report # None
                  THEN WriteFile(written, usernames[user], report[1])
                  ELSE written
    /\ user' = user + 1
    /\ mpc' = "next_user"
    /\ UNCHANGED <<env, budget, netBudget, url, prs, call, nextTask, nTasks, full,
                   changes, merge_times, approvals, report, served, got,
                   expected, lastPage>>

Next ==
    \/ NextUser
    \/ FetchLoop
    \/ PageDone
    \/ GotPrs
    \/ \E i \in Tasks : StartTask(i)
    \/ \E c \in Threads : Receive(c)
    \/ \E c \in Threads : Wake(c)
    \/ \E c \in Threads : Raise(c)
    \/ JoinDetails
    \/ JoinFiles
    \/ PoolRaise
    \/ PoolAbort
    \/ Reviews
    \/ ReviewDone
    \/ MainRaised
    \/ Save

Spec == Init /\ [][Next]_vars

\* In the pool scenario the server neither fails nor drops a connection, so
\* no thread ever sleeps and nothing raises: the steps left are these.
NextPool ==
    \/ NextUser
    \/ FetchLoop
    \/ PageDone
    \/ GotPrs
    \/ \E i \in Tasks : StartTask(i)
    \/ \E c \in Threads : Receive(c)
    \/ JoinDetails
    \/ JoinFiles
    \/ Reviews
    \/ ReviewDone
    \/ Save

SpecPool == InitPool /\ [][NextPool]_vars

FairSpec == Init /\ [][Next]_vars /\ WF_vars(Next)

SpecTimed == InitTimed /\ [][Next]_vars

SpecReviews == InitReviews /\ [][Next]_vars

SpecFiles == InitFiles /\ [][NextPool]_vars

SpecTimes == InitTimes /\ [][NextPool]_vars

TypeOK ==
    /\ mpc \in {"next_user", "fetch_loop", "fetch_wait", "got_prs", "pool_detail",
                "pool_files", "pool_abort", "reviews", "review_wait", "save",
                "exit", "crashed"}
    /\ budget \in 0..env.failures
    /\ Len(prs) <= env.hitCap

(***************************************************************************)
(* Properties.                                                             *)
(***************************************************************************)
\* C1: one call of make_api_request issues at most MAX_RETRIES = 5 GETs,
\* whatever the server answers, and a call that returns None (every attempt
\* failed) has issued exactly 5.
C1_RetryBudget ==
    \A c \in Threads :
        /\ call[c].attempts <= 5
        /\ (call[c].pc = "ret" /\ call[c].result = None) => call[c].attempts = 5

\* a call has returned None after five failed attempts, the last of them
\* answered with a plain error status
C1_Witness ==
    \E c \in Threads :
        /\ call[c].pc = "ret"
        /\ call[c].result = None
        /\ call[c].attempts = 5
        /\ call[c].lastStep = "get"

\* C5: at most 10 GETs are in flight at any moment, for any number of hits.
C5_InFlightBound == Cardinality(InFlight) <= 10

\* ten GETs are in flight while an eleventh task waits for a worker
C5_Witness ==
    /\ Cardinality(InFlight) = 10
    /\ nextTask <= nTasks

\* C6: make_api_request returns a response exactly when one of its GETs was
\* answered with 200; what it returns is that answer, the first 200, and
\* after it the call issues no GET and takes no sleep.
C6_ReturnsFirstOk ==
    \A c \in Threads :
        /\ call[c].pc = "ret" => (call[c].result # None <=> call[c].seen200 > 0)
        /\ call[c].pc \in {"wait", "sleep", "raised"} => call[c].seen200 = 0
        /\ call[c].seen200 <= 1
        /\ (call[c].pc = "ret" /\ call[c].result # None) =>
              /\ call[c].result[1].status_code = 200
              /\ call[c].lastStep = "get"
              /\ call[c].url.kind # "search" =>
                    <<call[c].url, call[c].result[1].body.json>> \in served

\* a call returns the 200 answer of its third attempt
C6_Witness ==
    \E c \in Threads :
        /\ call[c].pc = "ret"
        /\ call[c].result # None
        /\ call[c].attempts = 3

\* C2: fetch_user_prs terminates under every server behaviour, also when
\* every search response carries a rel="next" link to the url just
\* requested: a walk that has begun reaches its end.
C2_PaginationTerminates ==
    (mpc = "fetch_loop") ~> (mpc \notin {"fetch_loop", "fetch_wait"})

\* what the server has answered (with 200) to the requests for one pull
\* request of the current user
PullsServed(id) ==
    { x[2] : x \in { y \in served : y[1] = Url("pulls", usernames[user], id) } }
FilesServed(id) ==
    { x[2] : x \in { y \in served : y[1] = Url("files", usernames[user], id) } }
ReviewsServed(id) ==
    { x[2] : x \in { y \in served : y[1] = Url("reviews", usernames[user], id) } }

\* the hit's detail fetch succeeded and the detail has merged_at set
MergedServed(hit) == \E d \in PullsServed(hit.html_url) : d.merged_at # None

ReportBuilt == mpc = "save" /\ report # None

\* C3: the report has exactly one row for each search hit whose detail was
\* fetched and has merged_at set, in the order of the hits, and none for
\* any other hit.
C3_OneRowPerMergedHit ==
    ReportBuilt =>
        LET merged == SelectSeq(prs, MergedServed)
        IN  /\ Len(report[1]) = Len(merged)
            /\ \A k \in 1..Len(merged) : report[1][k].pr_url = merged[k].html_url

\* two hits, the first unmerged and the second merged, give one row
C3_Witness ==
    /\ ReportBuilt
    /\ Len(prs) = 2
    /\ \E d \in PullsServed(prs[1].html_url) : d.merged_at = None
    /\ MergedServed(prs[2])
    /\ Len(report[1]) = 1

\* C4: whatever the completion order of the pooled fetches, a row carries
\* the file count, line sum and approval flag computed from the files and
\* reviews the server returned for the pull request of that row.
C4_RowsMatchTheirPr ==
    ReportBuilt =>
        \A k \in 1..Len(report[1]) :
            LET row == report[1][k]
                files == FilesServed(row.pr_url)
                reviews == ReviewsServed(row.pr_url)
            IN  /\ <<row.changes, row.lines>> \in
                      (IF files = {} THEN {<<0, 0>>}
                       ELSE { ChangesAndLines(full[k], f) : f \in files })
                /\ row.no_approval \in
                      (IF reviews = {} THEN {1}
                       ELSE { IF AnyApproved(r) THEN 0 ELSE 1 : r \in reviews })

\* two rows whose file figures and approval flags differ
C4_Witness ==
    /\ ReportBuilt
    /\ Len(report[1]) = 2
    /\ report[1][1].changes # report[1][2].changes
    /\ report[1][1].no_approval # report[1][2].no_approval

\* C7: a failed remote call never aborts the run: nothing raises out of
\* make_api_request and the main thread is never unwound by an exception.
C7_NoFailureAborts ==
    /\ mpc \notin {"pool_abort", "crashed"}
    /\ \A c \in Threads : call[c].pc # "raised"

\* C8: a merged pull request whose files fetch failed or came back empty
\* has file count 0 and line sum 0, one whose reviews fetch failed or came
\* back empty has approval flag 1, and it has its row all the same.
C8_DegradedDefaults ==
    ReportBuilt =>
        /\ Len(report[1]) = Len(full)
        /\ \A k \in 1..Len(full) :
              LET row == report[1][k]
              IN  /\ row.pr_url = full[k].html_url
                  /\ FilesServed(full[k].html_url) \subseteq {<< >>} =>
                        (row.changes = 0 /\ row.lines = 0)
                  /\ ReviewsServed(full[k].html_url) \subseteq {<< >>} =>
                        row.no_approval = 1

\* a row of a pull request whose files fetch failed and whose reviews came
\* back empty
C8_Witness ==
    /\ ReportBuilt
    /\ \E k \in 1..Len(full) :
          /\ FilesServed(full[k].html_url) = {}
          /\ ReviewsServed(full[k].html_url) = {<< >>}
          /\ report[1][k].pr_url = full[k].html_url

\* C9: the hits returned are the items of the pages fetched, in page order;
\* the first request is the built query url, every later one the rel="next"
\* link of the previous response; the walk ends at the first response
\* without such a link or at the first failed request, keeping its hits.
C9_SearchWalk ==
    /\ (mpc = "fetch_wait" /\ call[0].pc \in {"wait", "sleep"}) =>
          /\ expected = Some(call[0].url)
          /\ lastPage \in {"start", "next"}
          /\ lastPage = "start" => call[0].url = BaseUrl(usernames[user])
          /\ prs = got
    /\ mpc = "fetch_loop" =>
          /\ prs = got
          /\ url = expected
          /\ lastPage \in {"start", "next", "last"}
          /\ url = None <=> lastPage = "last"
    /\ mpc = "got_prs" =>
          /\ prs = got
          /\ lastPage \in {"last", "fail"}

\* the walk ends on a failed request for a later page and keeps the hits
\* of the pages before
C9_Witness ==
    /\ mpc = "got_prs"
    /\ lastPage = "fail"
    /\ Len(prs) >= 1

\* C10: no file with zero data rows is ever written.
C10_NoEmptyFile == \A w \in written : w.nrows > 0

\* the names of the files written so far
FileNamesWritten == { w.name : w \in written }

\* C11: processing a username for which fetch_user_prs returned at least one
\* hit never ends without that user's report file: neither when the loop
\* moves on to the next username nor when the run ends.
C11_HitsGiveFile ==
    /\ (mpc \in {"next_user", "exit"} /\ user > 1 /\ prs # << >>) =>
          usernames[user - 1] \in FileNamesWritten
    /\ (mpc = "crashed" /\ url = None /\ prs # << >>) =>
          usernames[user] \in FileNamesWritten

\* a user whose two hits both lost their detail (one unmerged, one failed)
\* has a report file all the same, with no row
C11_Witness ==
    /\ mpc = "next_user"
    /\ user > 1
    /\ Len(prs) = 2
    /\ [name |-> usernames[user - 1], nrows |-> 0] \in written
    /\ \E x \in served : x[1].kind = "pulls" /\ x[2].merged_at = None
    /\ Cardinality({ x \in served : x[1].kind = "pulls" }) = 1

\* C12: the seconds one call of make_api_request has slept never exceed
\* MAX_RETRIES x EXTENDED_WAIT_TIME (300), whatever the server answers.
C12_SleepBound ==
    \A c \in Threads : call[c].slept <= MAX_RETRIES * EXTENDED_WAIT_TIME

\* a call that was rate-limited on every attempt has slept the full 300
\* seconds and returns None
C12_Witness ==
    \E c \in Threads :
        /\ call[c].pc = "ret"
        /\ call[c].result = None
        /\ call[c].slept = MAX_RETRIES * EXTENDED_WAIT_TIME

\* the spellings of "approved" that differ in case only, among the states
\* the server sends
ApprovedSpellings == {"approved", "Approved", "APPROVED"}

\* the review lists the server returned (with 200) for a pull request
ReviewsServedFor(pr) ==
    { x[2] : x \in { y \in served : y[1] = ReviewsUrl(pr) } }

\* C13: the approval flag of a pull request is 0 exactly when its reviews
\* fetch succeeded and some review's state is "approved" up to case; it is 1
\* otherwise, so for zero reviews and for reviews that could not be fetched.
C13_ApprovalFlag ==
    \A k \in 1..Len(approvals) :
        /\ approvals[k] \in {0, 1}
        /\ approvals[k] = 0 <=>
              \E r \in ReviewsServedFor(full[k]) :
                  \E i \in 1..Len(r) : r[i].state \in ApprovedSpellings

\* a pull request is flagged 0 for a mixed-case approval that follows a
\* comment
C13_Witness ==
    /\ approvals = <<0>>
    /\ ReviewsServedFor(full[1]) = { <<Review("COMMENTED"), Review("Approved")>> }

\* a pull request whose reviews could not be fetched is flagged 1
C13_WitnessUnavailable ==
    /\ approvals = <<1>>
    /\ ReviewsServedFor(full[1]) = {}

\* the file lists the server returned (with 200) for a pull request
FilesServedFor(pr) ==
    { x[2] : x \in { y \in served : y[1] = FilesUrl(pr) } }

\* the name is some prefix followed by the suffix
NameEndsIn(name, suffix) ==
    \E n \in 0..Len(name) : name = SubSeq(name, 1, n) \o suffix

\* the positions of the files named neither *.lock nor *.json nor *.md
CountedFiles(files) ==
    { i \in 1..Len(files) :
        /\ ~NameEndsIn(files[i].filename, <<".", "l", "o", "c", "k">>)
        /\ ~NameEndsIn(files[i].filename, <<".", "j", "s", "o", "n">>)
        /\ ~NameEndsIn(files[i].filename, <<".", "m", "d">>) }

RECURSIVE ChangesAt(_, _)
ChangesAt(files, positions) ==
    IF positions = {} THEN 0
    ELSE LET i == CHOOSE j \in positions : TRUE
         IN  files[i].changes + ChangesAt(files, positions \ {i})

\* C14: for every file list the server returns for a pull request, the file
\* count is the number, and the line sum the sum of 'changes', of exactly the
\* files whose name ends in none of .lock, .json, .md.
C14_FilteredFigures ==
    \A k \in 1..Len(changes) :
        \A files \in FilesServedFor(full[k]) :
            /\ changes[k][1] = Cardinality(CountedFiles(files))
            /\ changes[k][2] = ChangesAt(files, CountedFiles(files))

\* of a markdown file with 3 changes and a file x.md.py with 5, only the
\* second is counted
C14_Witness ==
    /\ changes = << <<1, 5>> >>
    /\ FilesServedFor(full[1]) = { <<File(FileMd, 3), File(FileMdPy, 5)>> }

\* the seconds from timestamp a to timestamp b
SecondsBetween(a, b) ==
    (((b.day - a.day) * 24 + (b.hh - a.hh)) * 60 + (b.mm - a.mm)) * 60 + (b.ss - a.ss)

\* timestamp a is not later than timestamp b
NotLater(a, b) ==
    \/ a.day < b.day
    \/ a.day = b.day /\ a.hh < b.hh
    \/ a.day = b.day /\ a.hh = b.hh /\ a.mm < b.mm
    \/ a.day = b.day /\ a.hh = b.hh /\ a.mm = b.mm /\ a.ss <= b.ss

\* C15: the merge time of a pull request is the smallest integer h with
\* h x 3600 >= the seconds from created_at to merged_at, and of two pull
\* requests created at the same time the one merged earlier never has the
\* larger merge time.
C15_MergeTimeCeiling ==
    /\ \A k \in 1..Len(merge_times) :
          LET d == SecondsBetween(full[k].created_at, full[k].merged_at[1])
              h == merge_times[k]
          IN  /\ h * 3600 >= d
              /\ (h - 1) * 3600 < d
    /\ \A j, k \in 1..Len(merge_times) :
          (/\ full[j].created_at = full[k].created_at
           /\ NotLater(full[j].merged_at[1], full[k].merged_at[1]))
          => merge_times[j] <= merge_times[k]

\* two pull requests created at midnight, one merged after a minute and one
\* after an hour and a half: 1 and 2 hours
C15_Witness ==
    /\ merge_times = <<1, 2>>
    /\ full[1].created_at = Stamp(0, 0, 0, 0)
    /\ full[1].merged_at = Some(Stamp(0, 0, 1, 0))
    /\ full[2].created_at = Stamp(0, 0, 0, 0)
    /\ full[2].merged_at = Some(Stamp(0, 1, 30, 0))

\* the detail request for the pull request of url u was answered with 200
\* and a detail that has merged_at set
MergedDetailServed(u) ==
    \E x \in served : x[1] = Url("pulls", u.user, u.id) /\ x[2].merged_at # None

\* C16: a files or reviews request is issued, and answered, only for a pull
\* request whose detail fetch has completed with a merged detail: never for
\* a hit whose detail is unmerged or whose detail fetch failed.
C16_OnlyAfterMergedDetail ==
    /\ \A c \in Threads :
          (call[c].pc # "idle" /\ call[c].url.kind \in {"files", "reviews"}) =>
              MergedDetailServed(call[c].url)
    /\ \A x \in served :
          x[1].kind \in {"files", "reviews"} => MergedDetailServed(x[1])

\* a files request is in flight for the one merged hit while the other
\* hit's detail came back unmerged
C16_Witness ==
    /\ \E c \in Threads : call[c].pc = "wait" /\ call[c].url.kind = "files"
    /\ \E x \in served : x[1].kind = "pulls" /\ x[2].merged_at = None
    /\ Len(prs) = 2

\* the threads that have a request of the kind in progress
Fetching(kind) ==
    { c \in Threads : call[c].pc \in {"wait", "sleep"} /\ call[c].url.kind = kind }

\* C17: the detail, files and reviews fetches all run under the worker pool:
\* each such request is made by a pool task, none by the main thread.
C17_AllUnderPool ==
    \A kind \in {"pulls", "files", "reviews"} : Fetching(kind) \subseteq Tasks

\* detail fetches of two pull requests are in flight at the same time, and
\* so are files fetches
C17_WitnessDetails == Cardinality(Fetching("pulls") \cap InFlight) = 2
C17_WitnessFiles == Cardinality(Fetching("files") \cap InFlight) = 2

\* the reviews fetches run one after the other: no two are ever in progress
\* together
C17_ReviewsOneByOne == Cardinality(Fetching("reviews")) <= 1

\* C18: make_api_request never sleeps after its last GET: a call that has
\* returned took a GET, not a sleep, as its last blocking step.
C18_NoSleepBeforeReturn ==
    \A c \in Threads : call[c].pc = "ret" => call[c].lastStep # "sleep"

\* C19: when generate_report zips its four lists into rows, the filtered
\* details, the file/line summaries, the merge times and the approval flags
\* have one and the same length, whatever the files and reviews fetches
\* returned, and there are as many rows, one per surviving pull request in
\* order.
C19_ZippedListsAgree ==
    ReportBuilt =>
        /\ Len(changes) = Len(full)
        /\ Len(merge_times) = Len(full)
        /\ Len(approvals) = Len(full)
        /\ Len(report[1]) = Len(full)
        /\ \A k \in 1..Len(full) : report[1][k].pr_url = full[k].html_url

\* two surviving pull requests, the files fetch of the first failed and the
\* reviews of the second came back empty: two rows
C19_Witness ==
    /\ ReportBuilt
    /\ Len(full) = 2
    /\ FilesServedFor(full[1]) = {}
    /\ ReviewsServedFor(full[2]) = { << >> }
    /\ Len(report[1]) = 2

====
